---- MODULE Spec2Model ----
(***************************************************************************)
(* OrderService (src/src/services/OrderService.ts): the per-user order     *)
(* store of GoodBite.  The store keeps the orders of the active user in    *)
(* memory and writes the whole collection back to localStorage under       *)
(* "goodbite_orders_" + phone after every mutating call.                   *)
(*                                                                         *)
(* The Order class ("@/models/Order") is imported by the service but its   *)
(* source is not part of src/: the entity's operations are modelled from   *)
(* section 4.1 of the specification.                                       *)
(***************************************************************************)
EXTENDS Integers, Sequences, FiniteSets, TLC

VARIABLES
    currentUserPhone,   \* OrderService.currentUserPhone ("" = no session)
    orders,             \* OrderService.orders, the in-memory collection
    storage,            \* localStorage: key -> stored value
    loadedUnder,        \* history: per in-memory order, the user key it was
                        \* loaded from or created under
    created,            \* history: the number of createOrder calls so far
    instance,           \* OrderService.instance is set
    outOfBand,          \* history: the users whose entry a second store has
                        \* written
    call                \* the last public call: name, argument, return value
                        \* and what it wrote to console.error

vars == <<currentUserPhone, orders, storage, loadedUnder, created, instance, outOfBand, call>>

----------------------------------------------------------------------------
(* Bounds and input domains *)

\* a run calls createOrder at most MaxCreates times
MaxCreates == 2

\* an upper bound of the collection's length: what one slot holds when the
\* page loads plus what the run creates
MaxHeld == MaxCreates + 1

\* the phone numbers that log in
Users == {"+1555", "+1777"}

\* the ids and prices callers put into OrderData
OrderIds == {"o1", "o2"}

PriceOf(id) == IF id = "o1" THEN 5 ELSE 7

OrderDatas == {[id |-> i, price |-> PriceOf(i)] : i \in OrderIds}

Statuses == {"pending", "picked", "expired"}

----------------------------------------------------------------------------
(* localStorage values *)

STORAGE_KEY_PREFIX == "goodbite_orders_"

USER_KEY == "goodbite_user"

\* getItem's null: no entry under the key
Null == [kind |-> "null", items |-> <<>>, phone |-> ""]

\* a text JSON.parse rejects
Malformed == [kind |-> "malformed", items |-> <<>>, phone |-> ""]

\* JSON.stringify of an array of OrderJSON objects
JsonArray(items) == [kind |-> "array", items |-> items, phone |-> ""]

\* JSON.stringify of a user object; phone "" stands for an absent phone field
JsonUser(phone) == [kind |-> "object", items |-> <<>>, phone |-> phone]

----------------------------------------------------------------------------
(* Order entity, specification section 4.1 *)

\* construct(data): id and price as given, status pending
NewOrder(data) == [id |-> data.id, status |-> "pending", price |-> data.price]

isPending(o) == o.status = "pending"

isPicked(o) == o.status = "picked"

\* markAsPicked(): only a pending order changes
markAsPicked(o) == IF isPending(o) THEN [o EXCEPT !.status = "picked"] ELSE o

\* markAsExpired(): only a pending order changes
markAsExpired(o) == IF isPending(o) THEN [o EXCEPT !.status = "expired"] ELSE o

\* serialize(): the plain OrderJSON object, here the tuple <<id, status, price>>
toJSON(o) == <<o.id, o.status, o.price>>

\* deserialize(json): an Order with the fields of the OrderJSON object
fromJSON(j) == [id |-> j[1], status |-> j[2], price |-> j[3]]

----------------------------------------------------------------------------
(* OrderService: private helpers *)

\* this.orders.map(order => order.toJSON())
toJSONAll(os) == [k \in 1..Len(os) |-> toJSON(os[k])]

\* ordersJSON.map(json => Order.fromJSON(json))
fromJSONAll(items) == [k \in 1..Len(items) |-> fromJSON(items[k])]

\* variant: the key without the phone, one slot for every user
storageKeyOf_shared(phone) == STORAGE_KEY_PREFIX

\* STORAGE_KEY_PREFIX + phone
storageKeyOf(phone) == STORAGE_KEY_PREFIX \o phone

getStorageKey == storageKeyOf(currentUserPhone)

Keys == {USER_KEY} \cup {storageKeyOf(u) : u \in Users}

\* setCurrentUser(): the phone of the user object under "goodbite_user";
\* "" when the entry is missing, has no phone, or does not parse
setCurrentUser(st) ==
    LET userData == st[USER_KEY]
    IN  IF userData.kind = "null" THEN ""
        ELSE IF userData.kind = "object" THEN userData.phone
        ELSE ""

\* variant: the load runs before currentUserPhone is assigned, and reads the
\* entry of the user bound until now
loadOrders_beforeAssign(phone, st) ==
    IF currentUserPhone = "" THEN <<>>
    ELSE LET stored == st[STORAGE_KEY_PREFIX \o currentUserPhone]
         IN  IF stored.kind = "array"
             THEN [k \in 1..Len(stored.items) |-> fromJSON(stored.items[k])]
             ELSE <<>>

\* loadOrders(): the collection the store holds after loading for `phone`
loadOrders(phone, st) ==
    IF phone = "" THEN <<>>
    ELSE LET stored == st[storageKeyOf(phone)]
         IN  IF stored.kind = "null" THEN <<>>
             ELSE IF stored.kind = "array" THEN fromJSONAll(stored.items)
             ELSE <<>>

\* what loadOrders() writes to console.error
loadLog(phone, st) ==
    IF phone # "" /\ st[storageKeyOf(phone)].kind \notin {"null", "array"}
    THEN "Error loading orders" ELSE "none"

\* variant: the save is skipped
saveOrders_skipped(phone, os, st, writeOk) == st

\* variant: a failed write loses the entry
saveOrders_failureClearsEntry(phone, os, st, writeOk) ==
    IF phone = "" THEN st
    ELSE [k \in DOMAIN st |->
            IF k = STORAGE_KEY_PREFIX \o phone
            THEN IF writeOk
                 THEN [kind |-> "array",
                       items |-> [m \in 1..Len(os) |-> toJSON(os[m])], phone |-> ""]
                 ELSE [kind |-> "null", items |-> <<>>, phone |-> ""]
            ELSE st[k]]

\* variant: no check of currentUserPhone, the collection is written under the
\* bare prefix when nobody is logged in
saveOrders_noUserCheck(phone, os, st, writeOk) ==
    IF writeOk
    THEN [k \in DOMAIN st \cup {STORAGE_KEY_PREFIX \o phone} |->
            IF k = STORAGE_KEY_PREFIX \o phone
            THEN [kind |-> "array",
                  items |-> [m \in 1..Len(os) |-> toJSON(os[m])], phone |-> ""]
            ELSE st[k]]
    ELSE st

\* variant: the write keeps the orders of the entry that the collection does
\* not hold, after those of the collection
saveOrders_mergesEntry(phone, os, st, writeOk) ==
    IF phone = "" \/ ~writeOk THEN st
    ELSE LET stored == st[STORAGE_KEY_PREFIX \o phone]
             kept == IF stored.kind = "array"
                     THEN SelectSeq(stored.items,
                                    LAMBDA j : \A m \in 1..Len(os) : os[m].id # j[1])
                     ELSE <<>>
         IN  [k \in DOMAIN st |->
                IF k = STORAGE_KEY_PREFIX \o phone
                THEN [kind |-> "array",
                      items |-> [m \in 1..Len(os) |-> toJSON(os[m])] \o kept,
                      phone |-> ""]
                ELSE st[k]]

\* saveOrders(): localStorage after saving `os` for `phone`; setItem throws
\* when writeOk is FALSE and the catch leaves the entry as it was
saveOrders(phone, os, st, writeOk) ==
    IF phone = "" THEN st
    ELSE IF writeOk
         THEN [st EXCEPT ![storageKeyOf(phone)] = JsonArray(toJSONAll(os))]
         ELSE st

\* what saveOrders() writes to console.error
saveLog(phone, writeOk) ==
    IF phone = "" THEN "No user logged in, cannot save orders"
    ELSE IF writeOk THEN "none" ELSE "Error saving orders"

----------------------------------------------------------------------------
(* OrderService: queries *)

undefined == [id |-> "undefined", status |-> "undefined", price |-> 0]

IndexOf(os, id) ==
    IF \E k \in 1..Len(os) : os[k].id = id
    THEN CHOOSE k \in 1..Len(os) :
            os[k].id = id /\ \A m \in 1..(k - 1) : os[m].id # id
    ELSE 0

\* orders.find(order => order.id === id)
getOrderById(os, id) == IF IndexOf(os, id) = 0 THEN undefined ELSE os[IndexOf(os, id)]

\* orders.some(order => order.id === orderId)
orderExists(os, id) == \E k \in 1..Len(os) : os[k].id = id

\* [...this.orders]
getAllOrders(os) == os

\* orders.length
getTotalOrdersCount(os) == Len(os)

\* variant: the reduce has no initial value and starts from the first order
\* itself, so the first price is left out of the sum
RECURSIVE getTotalRevenue_noInitial(_)
getTotalRevenue_noInitial(os) ==
    IF Len(os) <= 1 THEN 0
    ELSE getTotalRevenue_noInitial(SubSeq(os, 1, Len(os) - 1)) + os[Len(os)].price

\* orders.reduce((total, order) => total + order.price, 0)
RECURSIVE getTotalRevenue(_)
getTotalRevenue(os) ==
    IF os = <<>> THEN 0
    ELSE getTotalRevenue(SubSeq(os, 1, Len(os) - 1)) + os[Len(os)].price

\* variant: the filter keeps the orders whose status differs
getOrdersByStatus_negated(os, status) ==
    SelectSeq(os, LAMBDA o : o.status # status)

\* orders.filter(order => order.status === status)
getOrdersByStatus(os, status) ==
    SelectSeq(os, LAMBDA o : o.status = status)

\* orders.filter(order => order.isPending())
getPendingOrders(os) == SelectSeq(os, isPending)

\* orders.filter(order => order.isPicked())
getPickedOrders(os) == SelectSeq(os, isPicked)

RemoveAt(s, k) == [m \in 1..(Len(s) - 1) |-> IF m < k THEN s[m] ELSE s[m + 1]]

----------------------------------------------------------------------------
(* Initial state: the state the constructor leaves *)

o1Pending == toJSON(NewOrder([id |-> "o1", price |-> PriceOf("o1")]))

o2Picked == toJSON(markAsPicked(NewOrder([id |-> "o2", price |-> PriceOf("o2")])))

\* localStorage with `m` under "goodbite_user" and `a`, `b` under the order
\* keys of the two users
StorageOf(m, a, b) ==
    [k \in Keys |-> IF k = USER_KEY THEN m
                    ELSE IF k = storageKeyOf("+1555") THEN a ELSE b]

\* what the browser holds when the page loads: nothing, entries that do not
\* parse, and collections saved by earlier sessions
InitStorages ==
    { StorageOf(Null, Null, Null),
      StorageOf(Malformed, Malformed, Null),
      StorageOf(JsonUser(""), JsonArray(<<o1Pending>>), Null),
      StorageOf(JsonUser("+1555"), Null, Null),
      StorageOf(JsonUser("+1555"), Malformed, JsonArray(<<o2Picked>>)),
      StorageOf(JsonUser("+1555"), JsonArray(<<o1Pending>>), JsonArray(<<o2Picked>>)) }

Init ==
    /\ created = 0
    /\ instance = TRUE
    /\ outOfBand = {}
    /\ storage \in InitStorages
    /\ currentUserPhone = setCurrentUser(storage)
    /\ orders = loadOrders(currentUserPhone, storage)
    /\ loadedUnder = [k \in 1..Len(orders) |-> currentUserPhone]
    /\ call = [op |-> "constructor", arg |-> "", ret |-> "void",
               log |-> loadLog(currentUserPhone, storage)]

----------------------------------------------------------------------------
(* OrderService: public operations *)

\* variant: switchUser without its loadOrders() call
switchUser_keepsOrders(userPhone) ==
    /\ currentUserPhone' = userPhone
    /\ call' = [op |-> "switchUser", arg |-> userPhone, ret |-> "void", log |-> "none"]
    /\ UNCHANGED <<orders, loadedUnder, storage, created, instance, outOfBand>>

switchUser(userPhone) ==
    /\ UNCHANGED <<created, instance, outOfBand>>
    /\ currentUserPhone' = userPhone
    /\ orders' = loadOrders(userPhone, storage)
    /\ loadedUnder' = [k \in 1..Len(orders') |-> userPhone]
    /\ call' = [op |-> "switchUser", arg |-> userPhone, ret |-> "void",
                log |-> loadLog(userPhone, storage)]
    /\ UNCHANGED storage

\* variant: logging out also removes the user's entry, as clearAllOrders does
clearUserSession_removesEntry ==
    /\ currentUserPhone' = ""
    /\ orders' = <<>>
    /\ loadedUnder' = <<>>
    /\ storage' = [k \in DOMAIN storage |->
                     IF currentUserPhone # "" /\ k = STORAGE_KEY_PREFIX \o currentUserPhone
                     THEN [kind |-> "null", items |-> <<>>, phone |-> ""]
                     ELSE storage[k]]
    /\ call' = [op |-> "clearUserSession", arg |-> "", ret |-> "void", log |-> "none"]
    /\ UNCHANGED <<created, instance, outOfBand>>

clearUserSession ==
    /\ UNCHANGED <<created, instance, outOfBand>>
    /\ currentUserPhone' = ""
    /\ orders' = <<>>
    /\ loadedUnder' = <<>>
    /\ call' = [op |-> "clearUserSession", arg |-> "", ret |-> "void", log |-> "none"]
    /\ UNCHANGED storage

createOrder(orderData, writeOk) ==
    /\ created < MaxCreates
    /\ created' = created + 1
    /\ LET newOrder == NewOrder(orderData)
           pushed == Append(orders, newOrder)
       IN  /\ orders' = pushed
           /\ storage' = saveOrders(currentUserPhone, pushed, storage, writeOk)
           /\ call' = [op |-> "createOrder", arg |-> orderData.id, ret |-> newOrder,
                       log |-> saveLog(currentUserPhone, writeOk)]
    /\ loadedUnder' = Append(loadedUnder, currentUserPhone)
    /\ UNCHANGED <<currentUserPhone, instance, outOfBand>>

\* variant: refreshOrders that keeps the collection it holds
refreshOrders_keepsMemory ==
    /\ call' = [op |-> "refreshOrders", arg |-> "", ret |-> "void", log |-> "none"]
    /\ UNCHANGED <<currentUserPhone, orders, loadedUnder, storage, created, instance,
                   outOfBand>>

refreshOrders ==
    /\ UNCHANGED <<created, instance, outOfBand>>
    /\ orders' = loadOrders(currentUserPhone, storage)
    /\ loadedUnder' = [k \in 1..Len(orders') |-> currentUserPhone]
    /\ call' = [op |-> "refreshOrders", arg |-> "", ret |-> "void",
                log |-> loadLog(currentUserPhone, storage)]
    /\ UNCHANGED <<currentUserPhone, storage>>

\* the collection after order.markAsPicked() / order.markAsExpired() on the
\* order getOrderById found: the Order object in the array is changed in place
transitioned(os, orderId, to) ==
    [os EXCEPT ![IndexOf(os, orderId)] =
        IF to = "picked" THEN markAsPicked(@) ELSE markAsExpired(@)]

\* variant: the guard without order.isPending()
foundPending_anyStatus(os, orderId) == IndexOf(os, orderId) # 0

\* the guard `order && order.isPending()`
foundPending(os, orderId) ==
    IndexOf(os, orderId) # 0 /\ isPending(getOrderById(os, orderId))

markOrderAsPicked(orderId, writeOk) ==
    /\ UNCHANGED <<created, instance, outOfBand>>
    /\ IF foundPending(orders, orderId)
       THEN LET marked == transitioned(orders, orderId, "picked")
            IN  /\ orders' = marked
                /\ storage' = saveOrders(currentUserPhone, marked, storage, writeOk)
                /\ call' = [op |-> "markOrderAsPicked", arg |-> orderId, ret |-> TRUE,
                            log |-> saveLog(currentUserPhone, writeOk)]
       ELSE /\ call' = [op |-> "markOrderAsPicked", arg |-> orderId, ret |-> FALSE,
                        log |-> "none"]
            /\ UNCHANGED <<orders, storage>>
    /\ UNCHANGED <<currentUserPhone, loadedUnder>>

markOrderAsExpired(orderId, writeOk) ==
    /\ UNCHANGED <<created, instance, outOfBand>>
    /\ IF foundPending(orders, orderId)
       THEN LET marked == transitioned(orders, orderId, "expired")
            IN  /\ orders' = marked
                /\ storage' = saveOrders(currentUserPhone, marked, storage, writeOk)
                /\ call' = [op |-> "markOrderAsExpired", arg |-> orderId, ret |-> TRUE,
                            log |-> saveLog(currentUserPhone, writeOk)]
       ELSE /\ call' = [op |-> "markOrderAsExpired", arg |-> orderId, ret |-> FALSE,
                        log |-> "none"]
            /\ UNCHANGED <<orders, storage>>
    /\ UNCHANGED <<currentUserPhone, loadedUnder>>

\* orders.findIndex(...) then orders.splice(index, 1)
spliced(os, orderId) == RemoveAt(os, IndexOf(os, orderId))

deleteOrder(orderId, writeOk) ==
    /\ UNCHANGED <<created, instance, outOfBand>>
    /\ IF IndexOf(orders, orderId) # 0
       THEN LET rest == spliced(orders, orderId)
            IN  /\ orders' = rest
                /\ loadedUnder' = RemoveAt(loadedUnder, IndexOf(orders, orderId))
                /\ storage' = saveOrders(currentUserPhone, rest, storage, writeOk)
                /\ call' = [op |-> "deleteOrder", arg |-> orderId, ret |-> TRUE,
                            log |-> saveLog(currentUserPhone, writeOk)]
       ELSE /\ call' = [op |-> "deleteOrder", arg |-> orderId, ret |-> FALSE,
                        log |-> "none"]
            /\ UNCHANGED <<orders, loadedUnder, storage>>
    /\ UNCHANGED currentUserPhone

\* localStorage.removeItem(key); removeItem throws when removeOk is FALSE and
\* nothing catches it: the call ends with the exception, after orders = []
clearAllOrders(removeOk) ==
    /\ UNCHANGED <<created, instance, outOfBand>>
    /\ orders' = <<>>
    /\ loadedUnder' = <<>>
    /\ IF currentUserPhone # "" /\ removeOk
       THEN storage' = [storage EXCEPT ![getStorageKey] = Null]
       ELSE UNCHANGED storage
    /\ call' = [op |-> "clearAllOrders", arg |-> "",
                ret |-> IF currentUserPhone # "" /\ ~removeOk THEN "throws" ELSE "void",
                log |-> "none"]
    /\ UNCHANGED currentUserPhone

Next ==
    \/ \E u \in Users \cup {""} : switchUser(u)
    \/ clearUserSession
    \/ \E d \in OrderDatas, w \in BOOLEAN : createOrder(d, w)
    \/ refreshOrders
    \/ \E i \in OrderIds, w \in BOOLEAN : markOrderAsPicked(i, w)
    \/ \E i \in OrderIds, w \in BOOLEAN : markOrderAsExpired(i, w)
    \/ \E i \in OrderIds, w \in BOOLEAN : deleteOrder(i, w)
    \/ \E r \in BOOLEAN : clearAllOrders(r)

Spec == Init /\ [][Next]_vars

----------------------------------------------------------------------------
(* Code outside the store that holds what the queries returned *)

\* getOrderById(), createOrder() and the elements of getAllOrders() /
\* getOrdersByStatus() are the store's own Order objects: the caller invokes
\* markAsPicked() / markAsExpired() on the one at position k
callerMarksReturnedOrder(k, to) ==
    /\ k \in 1..Len(orders)
    /\ orders' = [orders EXCEPT ![k] =
                    IF to = "picked" THEN markAsPicked(@) ELSE markAsExpired(@)]
    /\ call' = [op |-> "callerMarksReturnedOrder", arg |-> orders[k].id,
                ret |-> "void", log |-> "none"]
    /\ UNCHANGED <<currentUserPhone, storage, loadedUnder, created, instance, outOfBand>>

\* getAllOrders() is [...this.orders], a new array: the caller pushing to it,
\* or splicing it, changes the caller's array alone
callerEditsReturnedList ==
    /\ call' = [op |-> "callerEditsReturnedList", arg |-> "", ret |-> "void",
                log |-> "none"]
    /\ UNCHANGED <<currentUserPhone, orders, storage, loadedUnder, created, instance, outOfBand>>

NextWithCaller ==
    \/ Next
    \/ \E k \in 1..MaxHeld, to \in {"picked", "expired"} : callerMarksReturnedOrder(k, to)
    \/ callerEditsReturnedList

SpecCaller == Init /\ [][NextWithCaller]_vars

----------------------------------------------------------------------------
(* A second OrderService, in another tab, on the same localStorage *)

\* the one order the other tab creates
otherOrderData == [id |-> "x1", price |-> PriceOf("x1")]

\* the other tab's store, bound to `u`, has loaded u's entry and runs
\* createOrder: its saveOrders() writes the entry it loaded plus the new order
otherInstanceCreates(u) ==
    /\ u \notin outOfBand
    /\ outOfBand' = outOfBand \cup {u}
    /\ storage' = saveOrders(u, Append(loadOrders(u, storage), NewOrder(otherOrderData)),
                             storage, TRUE)
    /\ call' = [op |-> "otherInstanceCreates", arg |-> u, ret |-> "void", log |-> "none"]
    /\ UNCHANGED <<currentUserPhone, orders, loadedUnder, created, instance>>

\* the store's operations with "+1555" as the only user who logs in
NextOneUser ==
    \/ \E u \in {"+1555", ""} : switchUser(u)
    \/ clearUserSession
    \/ \E d \in OrderDatas, w \in BOOLEAN : createOrder(d, w)
    \/ refreshOrders
    \/ \E i \in OrderIds, w \in BOOLEAN : markOrderAsPicked(i, w)
    \/ \E i \in OrderIds, w \in BOOLEAN : markOrderAsExpired(i, w)
    \/ \E i \in OrderIds, w \in BOOLEAN : deleteOrder(i, w)
    \/ \E r \in BOOLEAN : clearAllOrders(r)

\* the two tabs of one user
NextExternal ==
    \/ NextOneUser
    \/ otherInstanceCreates("+1555")

\* the page loads with "+1555" logged in, with and without a saved collection
InitExternal ==
    /\ Init
    /\ storage \in { StorageOf(JsonUser("+1555"), Null, Null),
                     StorageOf(JsonUser("+1555"), JsonArray(<<o1Pending>>),
                               JsonArray(<<o2Picked>>)) }

SpecExternal == InitExternal /\ [][NextExternal]_vars

----------------------------------------------------------------------------
(* The module-level singleton *)

\* variant: every access runs the constructor
getInstance_alwaysConstructs ==
    /\ instance' = TRUE
    /\ currentUserPhone' = setCurrentUser(storage)
    /\ orders' = loadOrders(currentUserPhone', storage)
    /\ loadedUnder' = [k \in 1..Len(orders') |-> currentUserPhone']
    /\ call' = [op |-> "getInstance", arg |-> "",
                ret |-> IF instance THEN "same" ELSE "constructed",
                log |-> loadLog(currentUserPhone', storage)]
    /\ UNCHANGED <<storage, created, outOfBand>>

\* getInstance(): `if (!OrderService.instance) new OrderService()`; the
\* constructor runs setCurrentUser() and loadOrders()
getInstance ==
    /\ UNCHANGED <<storage, created, outOfBand>>
    /\ IF ~instance
       THEN /\ instance' = TRUE
            /\ currentUserPhone' = setCurrentUser(storage)
            /\ orders' = loadOrders(currentUserPhone', storage)
            /\ loadedUnder' = [k \in 1..Len(orders') |-> currentUserPhone']
            /\ call' = [op |-> "getInstance", arg |-> "", ret |-> "constructed",
                        log |-> loadLog(currentUserPhone', storage)]
       ELSE /\ call' = [op |-> "getInstance", arg |-> "", ret |-> "same", log |-> "none"]
            /\ UNCHANGED <<instance, currentUserPhone, orders, loadedUnder>>

\* the application's login and logout code rewrites "goodbite_user"
loginWritesMarker(m) ==
    /\ storage[USER_KEY] # m
    /\ storage' = [storage EXCEPT ![USER_KEY] = m]
    /\ call' = [op |-> "loginWritesMarker", arg |-> m.phone, ret |-> "void", log |-> "none"]
    /\ UNCHANGED <<currentUserPhone, orders, loadedUnder, created, instance, outOfBand>>

\* before the module is evaluated: no OrderService exists
InitSingleton ==
    /\ created = 0
    /\ instance = FALSE
    /\ outOfBand = {}
    /\ storage \in { StorageOf(Null, Null, Null),
                     StorageOf(Malformed, Malformed, Null),
                     StorageOf(JsonUser(""), JsonArray(<<o1Pending>>), Null),
                     StorageOf(JsonUser("+1555"), JsonArray(<<o1Pending>>),
                               JsonArray(<<o2Picked>>)) }
    /\ currentUserPhone = ""
    /\ orders = <<>>
    /\ loadedUnder = <<>>
    /\ call = [op |-> "none", arg |-> "", ret |-> "void", log |-> "none"]

\* the public operations are reached through the instance getInstance() returns
NextSingleton ==
    \/ getInstance
    \/ loginWritesMarker(JsonUser("+1777"))
    \/ instance /\ NextOneUser

SpecSingleton == InitSingleton /\ [][NextSingleton]_vars

----------------------------------------------------------------------------
(* Vocabulary of the properties *)

\* the collection an entry holds: one order per serialized element, in order;
\* nothing for a missing entry or one that does not parse
PersistedCollection(st, u) ==
    LET e == st[STORAGE_KEY_PREFIX \o u]
    IN  IF e.kind = "array"
        THEN [k \in 1..Len(e.items) |->
                [id |-> e.items[k][1], status |-> e.items[k][2], price |-> e.items[k][3]]]
        ELSE <<>>

\* the entry that holds exactly the collection `os`
EntryOf(os) ==
    [kind |-> "array",
     items |-> [k \in 1..Len(os) |-> <<os[k].id, os[k].status, os[k].price>>],
     phone |-> ""]

NoDuplicateIds(os) ==
    \A k, m \in 1..Len(os) : os[k].id = os[m].id => k = m

Mutating == {"createOrder", "markOrderAsPicked", "markOrderAsExpired", "deleteOrder"}

\* the call took effect: createOrder always does, the others when they return true
TookEffect(c) ==
    \/ c.op = "createOrder"
    \/ c.op \in {"markOrderAsPicked", "markOrderAsExpired", "deleteOrder"} /\ c.ret = TRUE

Refused(c) ==
    c.op \in {"markOrderAsPicked", "markOrderAsExpired", "deleteOrder"} /\ c.ret = FALSE

----------------------------------------------------------------------------
CexC2_StatusNeverReverts ==
    [][ /\ call'.op = "createOrder" => orders'[Len(orders')].status = "pending"
        /\ ( /\ currentUserPhone' = currentUserPhone
             /\ NoDuplicateIds(orders)
             /\ NoDuplicateIds(orders') )
           => \A i \in OrderIds :
                 (orderExists(orders, i) /\ orderExists(orders', i)) =>
                    LET before == getOrderById(orders, i).status
                        after  == getOrderById(orders', i).status
                    IN  \/ after = before
                        \/ before = "pending" /\ after \in {"picked", "expired"} ]_vars

(* C3: markOrderAsPicked(id) and markOrderAsExpired(id) return true exactly *)
(* when an order with that id is found and it is pending; when they return  *)
(* false the collection and localStorage are what they were.                *)
ThmC3_TransitionRefused ==
    [][ call'.op \in {"markOrderAsPicked", "markOrderAsExpired"} =>
           LET found == \E k \in 1..Len(orders) : orders[k].id = call'.arg
               first == CHOOSE k \in 1..Len(orders) :
                           /\ orders[k].id = call'.arg
                           /\ \A m \in 1..(k - 1) : orders[m].id # call'.arg
           IN  /\ call'.ret = (found /\ orders[first].status = "pending")
               /\ call'.ret = FALSE =>
                     /\ orders' = orders
                     /\ storage' = storage
                     /\ currentUserPhone' = currentUserPhone ]_vars

\* markOrderAsExpired has just been refused for an order that is picked
WitC3_RefusedOnPicked ==
    /\ call.op = "markOrderAsExpired"
    /\ call.ret = FALSE
    /\ \E k \in 1..Len(orders) : orders[k].id = call.arg /\ orders[k].status = "picked"

(* C4: the in-memory collection never holds two orders with the same id.    *)
CexC4_NoDuplicateIds == NoDuplicateIds(orders)

(* C5: a caller that changes what a query returned (an order it was handed, *)
(* or the list) does not change the store's collection.                     *)
CexC5_CallerCannotChangeStore ==
    [][ call'.op \in {"callerMarksReturnedOrder", "callerEditsReturnedList"} =>
           orders' = orders ]_vars

(* C6: every order in memory was loaded from, or created under, the user    *)
(* key that is bound now: the collection is never a mix of two users.       *)
ThmC6_OneUserInMemory ==
    /\ Len(loadedUnder) = Len(orders)
    /\ \A k \in 1..Len(loadedUnder) : loadedUnder[k] = currentUserPhone

\* +1777 is bound and holds a loaded order and one created after it
WitC6_LoadedAndCreated ==
    /\ currentUserPhone = "+1777"
    /\ call.op = "createOrder"
    /\ Len(orders) = 2
    /\ orders[1].status = "picked"

(* C7: with a user bound and the write succeeding, after createOrder, or a  *)
(* markOrderAsPicked / markOrderAsExpired / deleteOrder that returned true, *)
(* the user's entry holds the whole in-memory collection in its order, and  *)
(* what the entry decodes to is that collection.                            *)
ThmC7_PersistAfterMutation ==
    [][ (TookEffect(call') /\ currentUserPhone' # "" /\ call'.log = "none") =>
           /\ storage'[STORAGE_KEY_PREFIX \o currentUserPhone'] = EntryOf(orders')
           /\ PersistedCollection(storage', currentUserPhone') = orders' ]_vars

\* a delete has just been persisted and left an order behind
WitC7_DeletePersisted ==
    /\ call.op = "deleteOrder"
    /\ call.ret = TRUE
    /\ call.log = "none"
    /\ currentUserPhone # ""
    /\ Len(orders) >= 1
    /\ storage[getStorageKey] = EntryOf(orders)

(* C8: deleteOrder(id) on an id the collection holds returns true and       *)
(* afterwards no order with that id is found; on an absent id it returns    *)
(* false and leaves the collection and localStorage as they were.           *)
CexC8_DeleteRemovesId ==
    [][ call'.op = "deleteOrder" =>
           IF \E k \in 1..Len(orders) : orders[k].id = call'.arg
           THEN /\ call'.ret = TRUE
                /\ ~orderExists(orders', call'.arg)
                /\ getOrderById(orders', call'.arg) = undefined
           ELSE /\ call'.ret = FALSE
                /\ orders' = orders
                /\ storage' = storage ]_vars

(* C9: switchUser(u) replaces the collection by the one persisted for u,    *)
(* which is empty when u's entry is missing or does not parse; it returns   *)
(* normally and leaves localStorage as it was.                              *)
ThmC9_BindLoadsPersisted ==
    [][ call'.op = "switchUser" =>
           /\ currentUserPhone' = call'.arg
           /\ orders' = (IF call'.arg = "" THEN <<>>
                         ELSE PersistedCollection(storage, call'.arg))
           /\ (call'.arg # "" /\ storage[STORAGE_KEY_PREFIX \o call'.arg].kind # "array")
                 => orders' = <<>>
           /\ call'.ret = "void"
           /\ storage' = storage ]_vars

\* a user whose entry does not parse has just been bound
WitC9_BoundOnMalformed ==
    /\ call.op = "switchUser"
    /\ currentUserPhone = "+1555"
    /\ storage[storageKeyOf("+1555")] = Malformed
    /\ orders = <<>>

(* C10: clearUserSession() leaves no active user and an empty collection    *)
(* and changes no entry of localStorage; a switchUser that follows loads    *)
(* what was persisted before the session was cleared.                       *)
ThmC10_ClearSessionKeepsStorage ==
    [][ /\ call'.op = "clearUserSession" =>
              /\ currentUserPhone' = ""
              /\ orders' = <<>>
              /\ storage' = storage
        /\ (call.op = "clearUserSession" /\ call'.op = "switchUser" /\ call'.arg # "") =>
              orders' = PersistedCollection(storage, call'.arg) ]_vars

\* the session has just been cleared while both users have orders stored
WitC10_ClearedWithStoredOrders ==
    /\ call.op = "clearUserSession"
    /\ currentUserPhone = ""
    /\ orders = <<>>
    /\ \A u \in Users : PersistedCollection(storage, u) # <<>>

(* C11: clearAllOrders() empties the collection and removes the entry of    *)
(* the active user, so that a reload or a new bind of that user loads no    *)
(* orders; every other entry stays, and with no active user nothing in      *)
(* localStorage changes.                                                    *)
CexC11_ClearAllRemovesEntry ==
    [][ call'.op = "clearAllOrders" =>
           /\ orders' = <<>>
           /\ Len(orders') = 0
           /\ currentUserPhone' = currentUserPhone
           /\ currentUserPhone # "" =>
                 /\ storage'[STORAGE_KEY_PREFIX \o currentUserPhone].kind = "null"
                 /\ PersistedCollection(storage', currentUserPhone) = <<>>
           /\ \A k \in DOMAIN storage :
                 k # STORAGE_KEY_PREFIX \o currentUserPhone => storage'[k] = storage[k]
           /\ currentUserPhone = "" => storage' = storage ]_vars

\* the call ended with an exception instead of returning
Threw(c) ==
    /\ c.op \in {"constructor", "getInstance", "switchUser", "clearUserSession",
                 "refreshOrders", "clearAllOrders"}
    /\ c.ret = "throws"

(* C12: no public operation of the store ends with an exception, whatever   *)
(* localStorage holds and whichever storage access fails.                   *)
CexC12_NeverThrows == ~Threw(call)

\* the sum of the prices of `os`, price by price: each price times the number
\* of orders that carry it
PricesIn(os) == {os[k].price : k \in 1..Len(os)}

RECURSIVE SumOver(_, _)
SumOver(ps, os) ==
    IF ps = {} THEN 0
    ELSE LET p == CHOOSE q \in ps : TRUE
         IN  p * Cardinality({k \in 1..Len(os) : os[k].price = p}) + SumOver(ps \ {p}, os)

(* C13: getTotalRevenue() is the sum of the prices of the orders            *)
(* getAllOrders() returns, in every state the store reaches, and 0 when     *)
(* the collection is empty.                                                 *)
ThmC13_RevenueIsSumOfPrices ==
    /\ getTotalRevenue(orders) = SumOver(PricesIn(getAllOrders(orders)), getAllOrders(orders))
    /\ getAllOrders(orders) = <<>> => getTotalRevenue(orders) = 0

\* orders of both prices are held after a create and the revenue is their sum
WitC13_TwoPricesSummed ==
    /\ call.op = "createOrder"
    /\ Len(orders) = 3
    /\ PricesIn(orders) = {5, 7}
    /\ getTotalRevenue(orders) \in {17, 19}

\* the positions of `os` whose order has status `st`
PositionsOf(os, st) == {k \in 1..Len(os) : os[k].status = st}

\* `r` holds exactly the orders of `os` with status `st`, in the order of `os`:
\* the order at a position of status st sits in r after as many elements as
\* there are earlier positions of status st
IsFilterOf(r, os, st) ==
    /\ Len(r) = Cardinality(PositionsOf(os, st))
    /\ \A k \in PositionsOf(os, st) :
          r[1 + Cardinality({m \in PositionsOf(os, st) : m < k})] = os[k]

(* C15: getOrdersByStatus(s) is the orders with status s in their order in  *)
(* the collection; the results for pending, picked and expired together     *)
(* hold every order once; after markOrderAsPicked(id) returned true the     *)
(* order it found is in the picked result and the pending result has one    *)
(* order less.                                                              *)
ThmC15_ListByStatus ==
    /\ [] /\ \A st \in Statuses : IsFilterOf(getOrdersByStatus(orders, st), orders, st)
          /\ Len(getOrdersByStatus(orders, "pending"))
                + Len(getOrdersByStatus(orders, "picked"))
                + Len(getOrdersByStatus(orders, "expired")) = Len(getAllOrders(orders))
    /\ [][ (call'.op = "markOrderAsPicked" /\ call'.ret = TRUE) =>
              LET first == CHOOSE k \in 1..Len(orders) :
                              /\ orders[k].id = call'.arg
                              /\ \A m \in 1..(k - 1) : orders[m].id # call'.arg
                  picked == getOrdersByStatus(orders', "picked")
              IN  /\ \E m \in 1..Len(picked) : picked[m] = orders'[first]
                  /\ Len(getOrdersByStatus(orders', "pending"))
                        = Len(getOrdersByStatus(orders, "pending")) - 1 ]_vars

\* an order has just been picked in a collection of three, one still pending
WitC15_PickedAmongPending ==
    /\ call.op = "markOrderAsPicked"
    /\ call.ret = TRUE
    /\ Len(getOrdersByStatus(orders, "picked")) >= 1
    /\ Len(getOrdersByStatus(orders, "pending")) >= 1
    /\ Len(orders) = 3

\* the position getOrderById finds for `id` in `os`
FirstWith(os, id) ==
    CHOOSE k \in 1..Len(os) : os[k].id = id /\ \A m \in 1..(k - 1) : os[m].id # id

\* `after` is `before` with the effect of the call `c` that returned success
EffectStands(c, before, after) ==
    IF c.op = "createOrder"
    THEN /\ after = before \o <<c.ret>>
         /\ c.ret.id = c.arg
         /\ c.ret.status = "pending"
    ELSE IF c.op = "deleteOrder"
    THEN /\ Len(after) = Len(before) - 1
         /\ \A k \in 1..Len(after) :
               after[k] = IF k < FirstWith(before, c.arg) THEN before[k] ELSE before[k + 1]
    ELSE /\ Len(after) = Len(before)
         /\ \A k \in 1..Len(before) :
               IF k = FirstWith(before, c.arg)
               THEN /\ before[k].status = "pending"
                    /\ after[k].status =
                          (IF c.op = "markOrderAsPicked" THEN "picked" ELSE "expired")
                    /\ after[k].id = before[k].id
                    /\ after[k].price = before[k].price
               ELSE after[k] = before[k]

(* C16: when the write of a create, transition or delete fails, the call    *)
(* still returns its success result and its effect on the collection        *)
(* stands, localStorage keeps what it held (so an entry that matched the    *)
(* collection no longer does), and the next mutating call whose write       *)
(* succeeds makes the entry hold the collection again.                      *)
ThmC16_WriteFailureDiverges ==
    [][ /\ (call'.op \in Mutating /\ call'.log = "Error saving orders") =>
              /\ TookEffect(call')
              /\ EffectStands(call', orders, orders')
              /\ storage' = storage
              /\ storage[STORAGE_KEY_PREFIX \o currentUserPhone] = EntryOf(orders)
                    => storage'[STORAGE_KEY_PREFIX \o currentUserPhone] # EntryOf(orders')
        /\ ( /\ currentUserPhone # ""
             /\ storage[STORAGE_KEY_PREFIX \o currentUserPhone] # EntryOf(orders)
             /\ TookEffect(call')
             /\ call'.log = "none" )
           => storage'[STORAGE_KEY_PREFIX \o currentUserPhone] = EntryOf(orders') ]_vars

\* a transition has just failed to persist: the order is picked in memory and
\* pending in the entry
WitC16_PickedInMemoryOnly ==
    /\ call.op = "markOrderAsPicked"
    /\ call.ret = TRUE
    /\ call.log = "Error saving orders"
    /\ currentUserPhone # ""
    /\ \E k \in 1..Len(orders) :
          /\ orders[k].status = "picked"
          /\ Len(PersistedCollection(storage, currentUserPhone)) = Len(orders)
          /\ PersistedCollection(storage, currentUserPhone)[k].status = "pending"

(* C17: with no user bound, createOrder still appends the new order and     *)
(* returns it, a transition or delete that succeeds still shows in the      *)
(* collection, and none of them writes or removes a localStorage key.       *)
ThmC17_NoSessionSkipsPersist ==
    [][ (currentUserPhone = "" /\ call'.op \in Mutating) =>
           /\ storage' = storage
           /\ DOMAIN storage' = DOMAIN storage
           /\ call'.op = "createOrder" => TookEffect(call')
           /\ TookEffect(call') => EffectStands(call', orders, orders')
           /\ call'.log = (IF TookEffect(call')
                           THEN "No user logged in, cannot save orders" ELSE "none") ]_vars

\* an order created with nobody logged in has just been deleted again, while
\* localStorage holds orders of a user
WitC17_DeleteWithoutSession ==
    /\ currentUserPhone = ""
    /\ call.op = "deleteOrder"
    /\ call.ret = TRUE
    /\ call.log = "No user logged in, cannot save orders"
    /\ Len(orders) = 1
    /\ PersistedCollection(storage, "+1555") # <<>>

Holds(os, id) == \E k \in 1..Len(os) : os[k].id = id

(* C14: refreshOrders replaces the collection by the one the bound user's   *)
(* entry holds at that moment, whatever the collection held and whoever     *)
(* wrote the entry; with no user bound the collection becomes empty; the    *)
(* entry and the binding are left alone.                                    *)
ThmC14_ReloadOverwritesMemory ==
    [][ call'.op = "refreshOrders" =>
           /\ orders' = (IF currentUserPhone = "" THEN <<>>
                         ELSE PersistedCollection(storage, currentUserPhone))
           /\ storage' = storage
           /\ currentUserPhone' = currentUserPhone ]_vars

\* a reload has just brought in the other tab's order and dropped an order of
\* this store whose write had failed
WitC14_OutOfBandOrderLoaded ==
    /\ call.op = "refreshOrders"
    /\ currentUserPhone = "+1555"
    /\ "+1555" \in outOfBand
    /\ created = 1
    /\ Len(orders) = 1
    /\ orders[1].id = "x1"
    /\ storage[STORAGE_KEY_PREFIX \o "+1555"] = EntryOf(orders)

(* C20: a mutating call of a bound store whose write succeeds leaves in the *)
(* entry exactly the store's collection: an order another tab added to the  *)
(* entry that the store has not loaded is gone from the entry, one the      *)
(* store has loaded is still there.                                         *)
ThmC20_LastWriterWins ==
    [][ ( /\ currentUserPhone # ""
          /\ call'.op \in Mutating
          /\ TookEffect(call')
          /\ call'.log = "none" ) =>
           /\ storage'[STORAGE_KEY_PREFIX \o currentUserPhone] = EntryOf(orders')
           /\ ~Holds(orders, "x1")
                 => ~Holds(PersistedCollection(storage', currentUserPhone), "x1")
           /\ Holds(orders', "x1")
                 => Holds(PersistedCollection(storage', currentUserPhone), "x1") ]_vars

\* the store loaded o1, the other tab added x1 to the entry, and a createOrder
\* of the store has just written the entry without x1
WitC20_OutOfBandOrderLost ==
    /\ call.op = "createOrder"
    /\ call.log = "none"
    /\ currentUserPhone = "+1555"
    /\ "+1555" \in outOfBand
    /\ created = 1
    /\ Len(orders) = 2
    /\ ~Holds(orders, "x1")
    /\ ~Holds(PersistedCollection(storage, "+1555"), "x1")

\* the phone recorded under "goodbite_user"; "" when there is none
MarkerPhone(st) == IF st[USER_KEY].kind = "object" THEN st[USER_KEY].phone ELSE ""

(* C18: the store is constructed by the first getInstance only: that call   *)
(* binds the phone recorded under "goodbite_user" ("" when the entry is     *)
(* missing, unparsable or without phone) and loads that user's entry; every *)
(* later getInstance changes nothing; once constructed the store stays      *)
(* constructed and its binding changes only in switchUser and               *)
(* clearUserSession.                                                        *)
ThmC18_ConstructedOnce ==
    [][ /\ (call'.op = "getInstance" /\ ~instance) =>
              /\ instance'
              /\ call'.ret = "constructed"
              /\ currentUserPhone' = MarkerPhone(storage)
              /\ orders' = (IF MarkerPhone(storage) = "" THEN <<>>
                            ELSE PersistedCollection(storage, MarkerPhone(storage)))
              /\ storage' = storage
        /\ (call'.op = "getInstance" /\ instance) =>
              /\ call'.ret = "same"
              /\ instance'
              /\ currentUserPhone' = currentUserPhone
              /\ orders' = orders
              /\ storage' = storage
        /\ instance => instance'
        /\ ~instance => (call'.op \in {"getInstance", "loginWritesMarker"})
        /\ (instance /\ currentUserPhone' # currentUserPhone) =>
              call'.op \in {"switchUser", "clearUserSession"} ]_vars

\* a later getInstance has just returned the store, bound to another user than
\* the one "goodbite_user" now records and holding an order
WitC18_LaterAccessKeepsState ==
    /\ instance
    /\ call.op = "getInstance"
    /\ call.ret = "same"
    /\ currentUserPhone = "+1555"
    /\ MarkerPhone(storage) = "+1777"
    /\ orders # <<>>

====
